---- MODULE Spec2Model ----
(***************************************************************************)
(* Model of src/src/index.ts: the SSE session registry (`transports`),     *)
(* the /sse and /messages endpoints, and the "generate-selfie" tool        *)
(* handler that adapts the five CallWrapper callbacks of one ComfyUI job   *)
(* into one awaited promise, relays progress notifications and falls back  *)
(* to the ComfyUI URL when the S3 upload fails.                            *)
(*                                                                         *)
(* The node event loop runs one handler / callback / continuation at a     *)
(* time, so each of them is one atomic action.  The remote engine, the     *)
(* client and the S3 store are the environment: their events and outcomes  *)
(* are chosen nondeterministically.                                        *)
(***************************************************************************)
EXTENDS Integers, Sequences, FiniteSets, TLC

\* ------------------------------------------------------------------ bounds
\* callbacks the remote jobs deliver in one run, over all calls
MaxCallbacks == 2

\* ------------------------------------------------------------ value spaces
\* session ids SSEServerTransport generates (each used at most once)
Sessions == {"s1", "s2"}
\* tool calls: the tools/call request the client of each session posts
Calls == {"c1", "c2"}
\* the sessionId query parameter of the POST that carries call c
SessionOf(c) == IF c = "c1" THEN "s1" ELSE "s2"

NoSession == "none"
NoToken == "none"

\* the progressToken a client may put in _meta of call c
TokenOf(c) == IF c = "c1" THEN "t1" ELSE "t2"

\* data.generated_image as onFinished may receive it: the slot may be absent,
\* its images list may be absent, empty, or hold image descriptors
Slot(present, hasImages, images) ==
    [present |-> present, hasImages |-> hasImages, images |-> images]
OutputSlots ==
    { Slot(FALSE, FALSE, << >>),
      Slot(TRUE, FALSE, << >>),
      Slot(TRUE, TRUE, << >>),
      Slot(TRUE, TRUE, <<"imgB", "imgA">>) }

\* (info.value, info.max) pairs onProgress may receive
ProgressInputs == { <<1, 2>>, <<1, 0>> }

\* errors the remote job may pass to onFailed
JobErrors == { [kind |-> "Error", message |-> <<"execution", "failed">>] }

\* the id the remote engine gave the job of a call (promptId of onFailed)
PromptIdOf(c) == IF c = "c1" THEN "prompt1" ELSE "prompt2"

\* Math.floor(Math.random() * 1_000_000): an integer of 0..999999; two of
\* them stand for the range
Seeds == {0, 1}
\* the handler only passes the seed on, so nothing but the equality of two
\* seeds is observable: the seed of the first call is named 0, the seed of
\* the second is equal to it or not
SeedsOf(c) == IF c = "c1" THEN {0} ELSE Seeds

\* the steps of uploadToS3 that can throw once the client is configured
UploadFailures == {"download", "put"}

\* --------------------------------------------------------------- messages
NotFoundMsg ==
    <<"Generated", "image", "data", "not", "found", "in", "ComfyUI", "response.">>
NotConnectedMsg == <<"Not", "connected">>
InitFailedMsg == <<"fetch", "failed">>
ErrorPrefix == <<"Error", "generating", "image:">>

VARIABLES
    transports,       \* keys of the registry `transports`
    channelOpen,      \* sessions whose SSE response (res) is open
    usedIds,          \* session ids generated so far
    serverTransport,  \* the transport the one shared McpServer is connected to
    lastSent,         \* the last progress notification written, and its channel
    lastPost,         \* HTTP status of the last POST /messages (0: none yet)
    s3Enabled,        \* env.S3_UPLOAD_ENABLED === "true" (s3Client is set)
    pc,               \* pc[c]: where the handler of call c stands
    token,            \* token[c]: _meta.progressToken, or NoToken
    seed,             \* seed[c]: the seed input of the workflow, << >> before it is drawn
    aborted,          \* aborted[c]: signal.aborted
    submitted,        \* submitted[c]: CallWrapper.run() was called
    promise,          \* promise[c]: the promise awaited at line 218
    firstTerminal,    \* firstTerminal[c]: the first onFinished/onFailed delivered
    terminals,        \* terminals[c]: onFinished/onFailed callbacks delivered
    ncb,              \* callbacks delivered so far
    interrupts,       \* interrupts[c]: api.interrupt() calls
    escaped,          \* escaped[c]: a callback's own promise rejected
    engineUp,         \* engineUp[c]: the connection of c's ComfyApi is alive
    upload,           \* upload[c]: how uploadToS3 ended ("none": not called)
    result            \* result[c]: the CallToolResult the handler returned

registryVars == <<transports, channelOpen, usedIds, serverTransport>>
callVars == <<pc, token, seed, aborted, submitted, promise, firstTerminal,
              terminals, ncb, interrupts, escaped, engineUp, upload, result>>
vars == <<transports, channelOpen, usedIds, serverTransport, lastSent,
          lastPost, s3Enabled, pc, token, seed, aborted, submitted, promise,
          firstTerminal, terminals, ncb, interrupts, escaped, engineUp, upload,
          result>>

NoValue == [kind |-> "none"]
Pending == [state |-> "pending", value |-> NoValue]
NoTerminal == [kind |-> "none", usable |-> FALSE]
NoResult == [kind |-> "none"]
\* res.status(400) of app.post("/messages"); handlePostMessage answers 202
HttpBadRequest == 400
HttpAccepted == 202
NothingSent == [channel |-> NoSession]

Init ==
    /\ transports = {}
    /\ channelOpen = {}
    /\ usedIds = {}
    /\ serverTransport = NoSession
    /\ lastSent = NothingSent
    /\ lastPost = 0
    /\ s3Enabled \in BOOLEAN
    /\ pc = [c \in Calls |-> "idle"]
    /\ token = [c \in Calls |-> NoToken]
    /\ seed = [c \in Calls |-> << >>]
    /\ aborted = [c \in Calls |-> FALSE]
    /\ submitted = [c \in Calls |-> FALSE]
    /\ promise = [c \in Calls |-> Pending]
    /\ firstTerminal = [c \in Calls |-> NoTerminal]
    /\ terminals = [c \in Calls |-> 0]
    /\ ncb = 0
    /\ interrupts = [c \in Calls |-> 0]
    /\ escaped = [c \in Calls |-> FALSE]
    /\ engineUp = [c \in Calls |-> TRUE]
    /\ upload = [c \in Calls |-> "none"]
    /\ result = [c \in Calls |-> NoResult]

\* ---------------------------------------------------------- pure helpers
\* api.getPathImage(imageInfo): the engine's own URL of an image descriptor
GetPathImage(img) == <<"comfy", "view", img>>

\* the public URL uploadToS3 returns
S3Url == <<"s3public", "selfie/", "file">>

Resolved(url) == [state |-> "resolved", value |-> [kind |-> "url", text |-> url]]
Rejected(err) == [state |-> "rejected", value |-> err]

\* faulty variant: a promise that every resolve()/reject() call settles again
SettleLastWins(p, outcome) == outcome

\* resolve()/reject() of a promise: only the first call settles it
Settle(p, outcome) == IF p.state = "pending" THEN outcome ELSE p

\* faulty variant: onFinished without the `images.length === 0` test
FinishedOutcomeNoLengthTest(data) ==
    IF ~data.present \/ ~data.hasImages
    THEN Rejected([kind |-> "Error", message |-> NotFoundMsg])
    ELSE Resolved(GetPathImage(IF Len(data.images) > 0
                               THEN data.images[1] ELSE "undefined"))

\* faulty variant: onFinished taking the last image of the slot
FinishedOutcomeLastImage(data) ==
    IF ~data.present \/ ~data.hasImages \/ Len(data.images) = 0
    THEN Rejected([kind |-> "Error", message |-> NotFoundMsg])
    ELSE Resolved(GetPathImage(data.images[Len(data.images)]))

\* the body of the onFinished callback: what it passes to resolve/reject
FinishedOutcome(data) ==
    IF ~data.present \/ ~data.hasImages \/ Len(data.images) = 0
    THEN Rejected([kind |-> "Error", message |-> NotFoundMsg])
    ELSE Resolved(GetPathImage(data.images[1]))

\* the body of the onFailed callback: promptId goes to console.error only,
\* the promise is rejected with err as it was received
FailedOutcome(err, promptId) == Rejected(err)

\* error instanceof Error ? error.message : String(error)
ErrorMessage(e) == IF e.kind = "Error" THEN e.message ELSE e.value

\* the two shapes of CallToolResult the handler returns
SuccessResult(url) == [kind |-> "result", isError |-> FALSE, text |-> url]
ErrorResult(e) ==
    [kind |-> "result", isError |-> TRUE, text |-> ErrorPrefix \o ErrorMessage(e)]

\* info.value / info.max, kept as the pair
Fraction(v, m) == <<v, m>>
Zero == Fraction(0, 1)

\* sendNotification of the shared server: it writes on the transport the
\* server is connected to, and throws when there is none
CanSend == serverTransport # NoSession
Notification(ch, c, p) ==
    [channel |-> ch, from |-> c, progressToken |-> token[c], progress |-> p]
Send(c, p) == lastSent' = Notification(serverTransport, c, p)

\* ------------------------------------------------------ session registry
\* transports[transport.sessionId] = transport
Register(reg, s) == reg \cup {s}
\* faulty variant: a close hook that deletes nothing
UnregisterNothing(reg, s) == reg
\* faulty variant: a close hook that clears the whole registry
UnregisterAll(reg, s) == {}
\* delete transports[transport.sessionId]
Unregister(reg, s) == reg \ {s}
\* faulty variant: a lookup that finds a transport for every sessionId
LookupAlways(reg, s) == TRUE
\* transports[sessionId], tested for presence
Lookup(reg, s) == s \in reg

\* app.get("/sse"): a new transport is stored under its fresh session id, the
\* close hook is armed, and the one shared server connects to the transport,
\* which from then on is the transport the server writes on
SseConnect(s) ==
    /\ s \notin usedIds
    /\ usedIds' = usedIds \cup {s}
    /\ channelOpen' = channelOpen \cup {s}
    /\ transports' = Register(transports, s)
    /\ serverTransport' = s
    /\ UNCHANGED <<lastSent, lastPost, s3Enabled, callVars>>

\* res.on("close"): the registry entry is deleted; the transport's own close
\* hook then tells the shared server that its connection is closed
SseClose(s) ==
    /\ s \in channelOpen
    /\ channelOpen' = channelOpen \ {s}
    /\ transports' = Unregister(transports, s)
    /\ serverTransport' = NoSession
    /\ UNCHANGED <<usedIds, lastSent, lastPost, s3Enabled, callVars>>

\* app.post("/messages"): lookup of the sessionId; HTTP 400 when absent,
\* otherwise the body (the tools/call request c) reaches the tool handler,
\* which starts with `await api.init()`
PostMessage(s, c, tok) ==
    /\ s = SessionOf(c)
    /\ IF Lookup(transports, s)
       THEN /\ pc[c] = "idle"
            /\ lastPost' = HttpAccepted
            /\ pc' = [pc EXCEPT ![c] = "init"]
            /\ token' = [token EXCEPT ![c] = tok]
       ELSE /\ lastPost' = HttpBadRequest
            /\ UNCHANGED <<pc, token>>
    /\ UNCHANGED <<registryVars, lastSent, s3Enabled, seed, aborted, submitted,
                   promise, firstTerminal, terminals, ncb, interrupts, escaped,
                   engineUp, upload, result>>

\* ------------------------------------------------------------ tool handler
\* the handler returns `res`
Return(c, res) ==
    /\ pc' = [pc EXCEPT ![c] = "done"]
    /\ result' = [result EXCEPT ![c] = res]

\* faulty variant: a failure of api.init() that is swallowed, the job is
\* submitted all the same
InitFailContinues(c) ==
    /\ pc[c] = "init"
    /\ pc' = [pc EXCEPT ![c] = "waiting"]
    /\ submitted' = [submitted EXCEPT ![c] = TRUE]
    /\ UNCHANGED <<registryVars, lastSent, lastPost, s3Enabled, seed, token, aborted,
                   promise, firstTerminal, terminals, ncb, interrupts,
                   escaped, engineUp, upload, result>>

\* api.init() throws: the catch block returns an error result
InitFail(c) ==
    /\ pc[c] = "init"
    /\ Return(c, ErrorResult([kind |-> "Error", message |-> InitFailedMsg]))
    /\ UNCHANGED <<registryVars, lastSent, lastPost, s3Enabled, seed, token, aborted,
                   submitted, promise, firstTerminal, terminals, ncb, interrupts,
                   escaped, engineUp, upload>>

\* faulty variant: a handler that does not await the job after run() and
\* returns at once
InitOkNoAwait(c, sd) ==
    /\ pc[c] = "init"
    /\ seed' = [seed EXCEPT ![c] = <<sd>>]
    /\ IF token[c] # NoToken /\ ~CanSend
       THEN /\ Return(c, ErrorResult([kind |-> "Error", message |-> NotConnectedMsg]))
            /\ UNCHANGED <<lastSent, submitted>>
       ELSE /\ IF token[c] # NoToken THEN Send(c, Zero) ELSE UNCHANGED lastSent
            /\ Return(c, SuccessResult(<<"undefined">>))
            /\ submitted' = [submitted EXCEPT ![c] = TRUE]
    /\ UNCHANGED <<registryVars, lastPost, s3Enabled, token, aborted, promise,
                   firstTerminal, terminals, ncb, interrupts, escaped, engineUp,
                   upload>>

\* api.init() returns: the workflow is built with the seed sd that
\* Math.random() gave, the initial progress notification is awaited when
\* there is a token, and CallWrapper.run() submits the job
InitOk(c, sd) ==
    /\ pc[c] = "init"
    /\ seed' = [seed EXCEPT ![c] = <<sd>>]
    /\ IF token[c] # NoToken /\ ~CanSend
       THEN /\ Return(c, ErrorResult([kind |-> "Error", message |-> NotConnectedMsg]))
            /\ UNCHANGED <<lastSent, submitted>>
       ELSE /\ IF token[c] # NoToken THEN Send(c, Zero) ELSE UNCHANGED lastSent
            /\ pc' = [pc EXCEPT ![c] = "waiting"]
            /\ submitted' = [submitted EXCEPT ![c] = TRUE]
            /\ UNCHANGED result
    /\ UNCHANGED <<registryVars, lastPost, s3Enabled, token, aborted, promise,
                   firstTerminal, terminals, ncb, interrupts, escaped, engineUp,
                   upload>>

\* ------------------------------------------------- CallWrapper callbacks
\* a callback can fire once run() was called, while the connection that
\* carries the job's events is alive; the remote job is the environment, so
\* order and multiplicity are free
CanFire(c) == submitted[c] /\ engineUp[c] /\ ncb < MaxCallbacks
Fired(c) == ncb' = ncb + 1

\* the progress part of onStart/onPending/onProgress:
\*   if (_meta?.progressToken) await sendNotification(...)
\* a throwing send rejects the promise of the async callback itself
SendThrows(c) == token[c] # NoToken /\ ~CanSend
Progress(c, p) ==
    IF token[c] = NoToken
    THEN UNCHANGED <<lastSent, escaped>>
    ELSE IF CanSend
         THEN Send(c, p) /\ UNCHANGED escaped
         ELSE escaped' = [escaped EXCEPT ![c] = TRUE] /\ UNCHANGED lastSent

\* faulty variant: callbacks that never look at the signal
CheckSignalNever(c) == UNCHANGED interrupts

\* faulty variant: an interrupt requested without reading signal.aborted
CheckSignalAlways(c) ==
    IF ~SendThrows(c)
    THEN interrupts' = [interrupts EXCEPT ![c] = @ + 1]
    ELSE UNCHANGED interrupts

\* faulty variant: the signal is read before the send is awaited, so a send
\* that throws does not prevent the interrupt
CheckSignalBeforeSend(c) ==
    IF aborted[c]
    THEN interrupts' = [interrupts EXCEPT ![c] = @ + 1]
    ELSE UNCHANGED interrupts

\* the cancellation part of onPending/onProgress, reached only when the
\* awaited send did not throw:  if (signal.aborted) api.interrupt()
CheckSignal(c) ==
    IF ~SendThrows(c) /\ aborted[c]
    THEN interrupts' = [interrupts EXCEPT ![c] = @ + 1]
    ELSE UNCHANGED interrupts

OnStart(c) ==
    /\ CanFire(c)
    /\ Fired(c)
    /\ Progress(c, Zero)
    /\ UNCHANGED <<registryVars, lastPost, s3Enabled, seed, pc, token, aborted,
                   submitted, promise, firstTerminal, terminals, interrupts,
                   engineUp, upload, result>>

OnPending(c) ==
    /\ CanFire(c)
    /\ Fired(c)
    /\ Progress(c, Zero)
    /\ CheckSignal(c)
    /\ UNCHANGED <<registryVars, lastPost, s3Enabled, seed, pc, token, aborted,
                   submitted, promise, firstTerminal, terminals, engineUp,
                   upload, result>>

OnProgress(c, v, m) ==
    /\ CanFire(c)
    /\ Fired(c)
    /\ Progress(c, Fraction(v, m))
    /\ CheckSignal(c)
    /\ UNCHANGED <<registryVars, lastPost, s3Enabled, seed, pc, token, aborted,
                   submitted, promise, firstTerminal, terminals, engineUp,
                   upload, result>>

\* the continuation of `await new Promise(...)`, which runs in the microtask
\* checkpoint that follows the callback that settled the promise: a rejection
\* goes to the catch block; a URL goes to the S3 step when upload is enabled
Resume(c, p) ==
    IF pc[c] = "waiting" /\ p.state # "pending"
    THEN IF p.state = "rejected"
         THEN Return(c, ErrorResult(p.value))
         ELSE IF s3Enabled
              THEN pc' = [pc EXCEPT ![c] = "upload"] /\ UNCHANGED result
              ELSE Return(c, SuccessResult(p.value.text))
    ELSE UNCHANGED <<pc, result>>

\* the first onFinished/onFailed the job delivered, and whether it carried a
\* usable image list; the number of terminal callbacks delivered
Usable(data) == data.present /\ data.hasImages /\ Len(data.images) > 0
NoteTerminal(c, t) ==
    /\ firstTerminal' =
           [firstTerminal EXCEPT ![c] = IF @ = NoTerminal THEN t ELSE @]
    /\ terminals' = [terminals EXCEPT ![c] = @ + 1]

OnFinished(c, data) ==
    /\ CanFire(c)
    /\ Fired(c)
    /\ promise' = [promise EXCEPT ![c] = Settle(@, FinishedOutcome(data))]
    /\ Resume(c, promise'[c])
    /\ NoteTerminal(c, [kind |-> "finished", usable |-> Usable(data)])
    /\ UNCHANGED <<registryVars, lastSent, lastPost, s3Enabled, seed, token,
                   aborted, submitted, interrupts, escaped, engineUp, upload>>

OnFailed(c, err, promptId) ==
    /\ CanFire(c)
    /\ Fired(c)
    /\ promise' = [promise EXCEPT ![c] = Settle(@, FailedOutcome(err, promptId))]
    /\ Resume(c, promise'[c])
    /\ NoteTerminal(c, [kind |-> "failed", usable |-> FALSE])
    /\ UNCHANGED <<registryVars, lastSent, lastPost, s3Enabled, seed, token,
                   aborted, submitted, interrupts, escaped, engineUp, upload>>

\* faulty variant: no fallback: the S3 URL is returned whatever uploadToS3 did
FinalUrlNoFallback(comfyUrl, outcome) == S3Url

\* finalImageUrl after the try/catch around `await uploadToS3(comfyImageUrl)`
FinalUrl(comfyUrl, outcome) == IF outcome = "ok" THEN S3Url ELSE comfyUrl

\* uploadToS3 ends: it returned the public URL, or one of its steps threw
UploadDone(c, outcome) ==
    /\ pc[c] = "upload"
    /\ upload' = [upload EXCEPT ![c] = outcome]
    /\ Return(c, SuccessResult(FinalUrl(promise[c].value.text, outcome)))
    /\ UNCHANGED <<registryVars, lastSent, lastPost, s3Enabled, seed, token, aborted,
                   submitted, promise, firstTerminal, terminals, ncb, interrupts,
                   escaped, engineUp>>

\* ------------------------------------------------------------ environment
\* faulty variant: an abort that ends the call at once with an error result
AbortReturns(c) ==
    /\ pc[c] \in {"waiting", "upload"}
    /\ ~aborted[c]
    /\ aborted' = [aborted EXCEPT ![c] = TRUE]
    /\ Return(c, ErrorResult([kind |-> "Error", message |-> <<"aborted">>]))
    /\ UNCHANGED <<registryVars, lastSent, lastPost, s3Enabled, seed, token,
                   submitted, promise, firstTerminal, terminals, ncb, interrupts,
                   escaped, engineUp, upload>>

\* the call's AbortSignal becomes aborted while the handler runs.  The signal
\* is read only by onPending/onProgress, which fire after run(), so an abort
\* during `await api.init()` acts as one right after run() and is taken there
Abort(c) ==
    /\ pc[c] \in {"waiting", "upload"}
    /\ ~aborted[c]
    /\ aborted' = [aborted EXCEPT ![c] = TRUE]
    /\ UNCHANGED <<registryVars, lastSent, lastPost, s3Enabled, seed, pc, token,
                   submitted, promise, firstTerminal, terminals, ncb, interrupts,
                   escaped, engineUp, upload, result>>

\* the connection to the remote engine is lost while the handler awaits the
\* job and no callback reports it (a loss the CallWrapper reports is an
\* OnFailed); the handler registers no listener for it, so nothing else
\* changes, and no event of the job arrives any more
EngineClose(c) ==
    /\ pc[c] = "waiting"
    /\ engineUp[c]
    /\ engineUp' = [engineUp EXCEPT ![c] = FALSE]
    /\ UNCHANGED <<registryVars, lastSent, lastPost, s3Enabled, seed, pc, token,
                   aborted, submitted, promise, firstTerminal, terminals, ncb,
                   interrupts, escaped, upload, result>>

Next ==
    \/ \E s \in Sessions : SseConnect(s)
    \/ \E s \in Sessions : SseClose(s)
    \/ \E s \in Sessions, c \in Calls :
          \E tok \in {NoToken, TokenOf(c)} : PostMessage(s, c, tok)
    \/ \E c \in Calls : InitFail(c)
    \/ \E c \in Calls : \E sd \in SeedsOf(c) : InitOk(c, sd)
    \/ \E c \in Calls : OnStart(c)
    \/ \E c \in Calls : OnPending(c)
    \/ \E c \in Calls, p \in ProgressInputs : OnProgress(c, p[1], p[2])
    \/ \E c \in Calls, d \in OutputSlots : OnFinished(c, d)
    \/ \E c \in Calls, e \in JobErrors : OnFailed(c, e, PromptIdOf(c))
    \/ \E c \in Calls, o \in {"ok"} \cup UploadFailures : UploadDone(c, o)
    \/ \E c \in Calls : Abort(c)
    \/ \E c \in Calls : EngineClose(c)

Spec == Init /\ [][Next]_vars


\* ================================================================= claims

\* lower-casing of the words the handler's messages are made of
LowerWord(w) ==
    CASE w = "Not" -> "not"
      [] w = "Found" -> "found"
      [] OTHER -> w
\* the text contains "not found", case-insensitively
ContainsNotFound(text) ==
    \E i \in 1..(Len(text) - 1) :
        LowerWord(text[i]) = "not" /\ LowerWord(text[i + 1]) = "found"

IsErrorResult(c) == result[c].kind = "result" /\ result[c].isError
IsSuccessResult(c) == result[c].kind = "result" /\ ~result[c].isError

\* ---- C1
\* the promise of a call is pending exactly until the first terminal callback,
\* its outcome is the one that first callback asked for
SettledByFirst(c) ==
    /\ (firstTerminal[c] = NoTerminal) <=> (promise[c].state = "pending")
    /\ firstTerminal[c].kind = "finished" =>
          promise[c].state = IF firstTerminal[c].usable THEN "resolved" ELSE "rejected"
    /\ firstTerminal[c].kind = "failed" =>
          promise[c].state = "rejected" /\ promise[c].value \in JobErrors

\* C1: for every sequence of callbacks the awaited result settles exactly once,
\* by the first terminal callback; a later terminal callback (or any other
\* step) leaves the settled outcome unchanged.
C1_FirstTerminalWins ==
    /\ [](\A c \in Calls : SettledByFirst(c))
    /\ [][\A c \in Calls :
            promise[c].state # "pending" => promise'[c] = promise[c]]_vars

\* a call whose job delivered two terminal callbacks, the first an onFinished
\* with an image, and whose promise is resolved
C1_Witness ==
    \E c \in Calls :
        /\ terminals[c] >= 2
        /\ firstTerminal[c] = [kind |-> "finished", usable |-> TRUE]
        /\ promise[c].state = "resolved"

\* ---- C2
\* C2: when the first terminal callback is an onFinished whose generated_image
\* slot is absent, has no images list or an empty one, the awaited result is a
\* rejection and the call has returned an error result (isError true) whose
\* text contains "not found"; never a success result.
C2_MissingOutputIsError ==
    \A c \in Calls :
        firstTerminal[c] = [kind |-> "finished", usable |-> FALSE] =>
            /\ promise[c].state = "rejected"
            /\ pc[c] = "done"
            /\ IsErrorResult(c)
            /\ ContainsNotFound(result[c].text)

C2_Witness ==
    \E c \in Calls :
        /\ firstTerminal[c] = [kind |-> "finished", usable |-> FALSE]
        /\ IsErrorResult(c)
        /\ result[c].text = ErrorPrefix \o NotFoundMsg

\* ---- C3
\* C3: once the connection to the remote engine is lost with no terminal
\* callback delivered, the awaited result is settled as a failure and the call
\* has returned.
C3_ConnectionLossSettles ==
    \A c \in Calls :
        (~engineUp[c] /\ firstTerminal[c] = NoTerminal) =>
            (promise[c].state = "rejected" /\ pc[c] = "done")

InitFailedResult == ErrorResult([kind |-> "Error", message |-> InitFailedMsg])
C5_ResultIndependentOfChannel ==
    \A c \in Calls :
        (pc[c] = "done" /\ result[c] # InitFailedResult) =>
            (submitted[c] /\ firstTerminal[c] # NoTerminal)

C7_NoCrossDelivery ==
    [][( /\ channelOpen = Sessions
         /\ \A c \in Calls : pc[c] \in {"init", "waiting", "upload"}
         /\ lastSent' # lastSent )
       => lastSent'.channel = SessionOf(lastSent'.from)
      ]_vars

\* ---- C8
\* C8: when uploadToS3 was called and threw, the call has returned a success
\* result whose text is the engine's own URL of the image, not the S3 URL.
C8_UploadFailureFallsBack ==
    \A c \in Calls :
        upload[c] \in UploadFailures =>
            /\ pc[c] = "done"
            /\ IsSuccessResult(c)
            /\ result[c].text = promise[c].value.text
            /\ result[c].text = GetPathImage("imgB")
            /\ result[c].text # S3Url

C8_Witness ==
    \E c \in Calls :
        s3Enabled /\ upload[c] \in UploadFailures /\ IsSuccessResult(c)

\* ---- C9
\* C9: no failure inside a tool invocation escapes the handler: no callback's
\* own promise is ever rejected by a failed progress send.
C9_NoFaultEscapes == \A c \in Calls : ~escaped[c]

\* ---- C10
\* C10: the keys of the registry are exactly the sessions whose push channel
\* is open.
C10_RegistryIsOpenChannels == transports = channelOpen

\* the channel of a session was closed, and its entry removed, while the
\* call of that session is still awaiting its job
C10_Witness ==
    \E c \in Calls :
        /\ pc[c] = "waiting"
        /\ SessionOf(c) \in usedIds
        /\ ~(SessionOf(c) \in channelOpen)
        /\ ~(SessionOf(c) \in transports)

C12_CancellationAdvisory ==
    [][\A c \in Calls :
          /\ (aborted'[c] # aborted[c] \/ interrupts'[c] # interrupts[c]) =>
                /\ promise'[c] = promise[c]
                /\ pc'[c] = pc[c]
                /\ result'[c] = result[c]
          /\ (promise[c].state = "pending" /\ promise'[c].state # "pending") =>
                terminals'[c] = terminals[c] + 1
          /\ (pc[c] = "waiting" /\ pc'[c] # "waiting") =>
                terminals'[c] = terminals[c] + 1]_vars

\* the abort of a call was observed and an interrupt requested, no terminal
\* callback has arrived, and the call is still waiting without a result
C12_Witness ==
    \E c \in Calls :
        /\ aborted[c]
        /\ interrupts[c] >= 1
        /\ terminals[c] = 0
        /\ promise[c] = Pending
        /\ pc[c] = "waiting"
        /\ result[c] = NoResult

\* ---- C13
\* C13: when the first terminal callback of a call is an onFinished whose
\* generated_image slot holds at least one image, and upload is disabled, the
\* call has returned a success result (isError not set) whose text is the
\* non-empty URL getPathImage builds from the first image of the slot.
C13_FinishedReturnsFirstImageUrl ==
    \A c \in Calls :
        (firstTerminal[c] = [kind |-> "finished", usable |-> TRUE] /\ ~s3Enabled) =>
            /\ pc[c] = "done"
            /\ IsSuccessResult(c)
            /\ Len(result[c].text) > 0
            /\ \E d \in OutputSlots :
                  Usable(d) /\ result[c].text = GetPathImage(Head(d.images))

\* with upload disabled, a call whose first terminal callback was an
\* onFinished with images returned the URL of the first image
C13_Witness ==
    \E c \in Calls :
        /\ ~s3Enabled
        /\ firstTerminal[c] = [kind |-> "finished", usable |-> TRUE]
        /\ IsSuccessResult(c)
        /\ result[c].text = GetPathImage("imgB")

\* ---- C14
\* the text of the result of a call names the id of its remote job
CarriesJobId(text, c) == \E i \in 1..Len(text) : text[i] = PromptIdOf(c)

\* C14: when the first terminal callback of a call is an onFailed, the
\* promise is rejected with the error annotated with the remote job id, and
\* the error result the call returns carries that job id.
C14_FailureCarriesJobId ==
    \A c \in Calls :
        (firstTerminal[c].kind = "failed" /\ pc[c] = "done") =>
            /\ IsErrorResult(c)
            /\ CarriesJobId(result[c].text, c)

\* ---- C15
\* C15: once the first terminal callback of a call has been handled, no later
\* callback of that call has an effect: no step after it emits a progress
\* notification of the call or requests an interrupt for it.
C15_NothingAfterTerminal ==
    [][\A c \in Calls :
          firstTerminal[c] # NoTerminal =>
              /\ interrupts'[c] = interrupts[c]
              /\ (lastSent' # lastSent => lastSent'.from # c)]_vars

\* ---- C16
\* the quotient v / m of a progress pair is a number between 0 and 1 (with
\* m = 0 the division gives Infinity or NaN, with v > m a number above 1)
InUnitInterval(p) == p[2] > 0 /\ 0 <= p[1] /\ p[1] <= p[2]

\* C16: every progress notification emitted carries the progressToken of the
\* call that sent it, never the absent token, and a progress value in [0,1],
\* for every (value, max) pair onProgress receives.
C16_ProgressTokenAndRange ==
    lastSent # NothingSent =>
        /\ lastSent.progressToken # NoToken
        /\ lastSent.progressToken = TokenOf(lastSent.from)
        /\ InUnitInterval(lastSent.progress)

\* ---- C19
\* C19: every invocation that submits its job does so with an integer seed it
\* has drawn, and no two invocations submit with the same seed.
C19_SeedsNeverReused ==
    \A c \in Calls :
        submitted[c] =>
            /\ seed[c] \in {<<sd>> : sd \in Seeds}
            /\ \A d \in Calls \ {c} : submitted[d] => seed[d] # seed[c]

\* ---- C17
\* C17: the handler has no timeout of its own.  As long as the job of a call
\* that was submitted has delivered no terminal callback, the call is still
\* waiting and has no result, whatever onStart, onPending and onProgress
\* callbacks and aborts have occurred (with the connection alive or not).
C17_NoIntrinsicTimeout ==
    \A c \in Calls :
        (submitted[c] /\ terminals[c] = 0) =>
            /\ pc[c] = "waiting"
            /\ result[c] = NoResult

\* the only submitted call has its connection alive and its signal aborted,
\* the callback budget was spent on callbacks that are not terminal, and the
\* call is still waiting
C17_Witness ==
    \E c \in Calls :
        /\ submitted[c]
        /\ engineUp[c]
        /\ aborted[c]
        /\ terminals[c] = 0
        /\ ncb >= 2
        /\ pc[c] = "waiting"
        /\ \A d \in Calls \ {c} : ~submitted[d]

\* ---- C18
\* C18: when api.init() fails, the step that handles the failure returns an
\* error result (isError set) and neither submits the job nor touches the
\* promise, the callbacks or the upload; and a call that returned the result
\* of a failed initialisation never has a submitted job, a callback
\* delivered, an interrupt requested or an upload attempted.
C18_InitFailureIsErrorResult ==
    /\ [][\A c \in Calls :
            InitFail(c) =>
                /\ pc'[c] = "done"
                /\ result'[c].kind = "result" /\ result'[c].isError
                /\ ~submitted'[c]
                /\ promise'[c] = Pending
                /\ upload'[c] = "none"]_vars
    /\ [](\A c \in Calls :
            result[c] = InitFailedResult =>
                /\ pc[c] = "done"
                /\ ~submitted[c]
                /\ terminals[c] = 0
                /\ interrupts[c] = 0
                /\ promise[c] = Pending
                /\ upload[c] = "none")

\* a call returned the error result of a failed initialisation while the
\* other call had its job submitted
C18_Witness ==
    \E c \in Calls, d \in Calls :
        /\ c # d
        /\ result[c] = InitFailedResult
        /\ IsErrorResult(c)
        /\ ~submitted[c]
        /\ submitted[d]

\* ---- C20
\* C20: an interrupt is requested only by an onPending or onProgress callback
\* of a call whose signal is aborted when the callback runs, one request per
\* callback; every other step (the abort itself, onStart, the terminal
\* callbacks, the handler's own steps) requests none, and a call whose signal
\* was never aborted has requested no interrupt.
C20_InterruptOnlyFromAbortedPoll ==
    /\ [][\A c \in Calls :
            interrupts'[c] # interrupts[c] =>
                /\ aborted[c]
                /\ interrupts'[c] = interrupts[c] + 1
                /\ \/ OnPending(c)
                   \/ \E p \in ProgressInputs : OnProgress(c, p[1], p[2])]_vars
    /\ [](\A c \in Calls : ~aborted[c] => interrupts[c] = 0)

\* the only submitted call was aborted and requested exactly one interrupt,
\* although two callbacks of it were delivered
C20_Witness ==
    \E c \in Calls :
        /\ aborted[c]
        /\ interrupts[c] = 1
        /\ ncb >= 2
        /\ \A d \in Calls \ {c} : ~submitted[d]

\* ---- C21
\* C21: in every onPending or onProgress step of a call that has a
\* progressToken, the signal is read only after the awaited send returned:
\* when the send succeeds the notification of the call has been written and
\* an interrupt is requested exactly if the signal is aborted; when the send
\* throws, the callback ends there, it requests no interrupt even with the
\* signal aborted, and nothing is written.
C21_SignalReadAfterSend ==
    [][\A c \in Calls :
          ( /\ token[c] # NoToken
            /\ \/ OnPending(c)
               \/ \E p \in ProgressInputs : OnProgress(c, p[1], p[2]) ) =>
              IF CanSend
              THEN /\ lastSent'.from = c
                   /\ lastSent'.channel = serverTransport
                   /\ interrupts'[c] = interrupts[c] + (IF aborted[c] THEN 1 ELSE 0)
              ELSE /\ interrupts'[c] = interrupts[c]
                   /\ escaped'[c]
                   /\ lastSent' = lastSent]_vars

\* the only submitted call has a token and an aborted signal, the server has
\* no transport, a send of one of its callbacks threw, and no interrupt was
\* requested
C21_Witness ==
    \E c \in Calls :
        /\ token[c] # NoToken
        /\ aborted[c]
        /\ escaped[c]
        /\ interrupts[c] = 0
        /\ ncb >= 2
        /\ ~CanSend
        /\ \A d \in Calls \ {c} : ~submitted[d]

====
